---------------------------- MODULE Spec2Model ----------------------------
(***************************************************************************)
(* Model of the CEP batch enrichment portal (app.py, database.py).         *)
(*                                                                         *)
(* The store (tables jobs and results of database.py) is shared by the     *)
(* UI sessions; every session runs the script of app.py in a thread of its *)
(* own, so the sessions' database calls interleave.  A job run             *)
(* (processar_job) is cut at its database calls and at the awaits of its   *)
(* provider calls.                                                         *)
(*                                                                         *)
(* Text is a sequence of one-character strings.  An empty spreadsheet cell *)
(* (pandas NaN) is the empty sequence: read_excel never yields an empty    *)
(* string.  Status texts are tuples of their parts, 'BRASILAPI: Falha      *)
(* (ReadTimeout)' being <<"BRASILAPI", "Falha", "ReadTimeout">>; accented  *)
(* letters of the source's literals are written without the accent.        *)
(*                                                                         *)
(* BATCH_SIZE and CONCURRENCY_LIMIT are scaled down from the source's 50   *)
(* and 8 (keeping CONCURRENCY_LIMIT < BATCH_SIZE), so that a file of four  *)
(* rows has two batches and a batch of three rows fills the semaphore.     *)
(***************************************************************************)
EXTENDS Naturals, Sequences, FiniteSets

VARIABLES
    jobs,       \* table jobs: id -> row (ids 1..Len(jobs), AUTOINCREMENT)
    results,    \* table results, in id order
    pc,         \* per session: where its script run stands
    view,       \* per session: ids whose "Processar" button the page shows
    clicked,    \* per session: id of the pressed button (0: none)
    job,        \* per session: job_id of the running processar_job (0: none)
    df,         \* per session: the loaded rows with cep_padronizado
    pos,        \* per session: rows before the current batch (batch_num * BATCH_SIZE)
    total,      \* per session: total_propostas_processadas
    sem,        \* per session: value of the batch's asyncio.Semaphore
    tasks,      \* per session: the batch's run_fetch tasks, in gather order
    issued,     \* per session: log of the provider calls its current run issued (history)
    ret         \* per session: value returned by a direct fetch_all_apis_for_cep call

vars == <<jobs, results, pc, view, clicked, job, df, pos, total, sem, tasks, issued, ret>>

-----------------------------------------------------------------------------
(* Configuration (app.py lines 18-20) and bounds.                          *)

BATCH_SIZE == 3

CONCURRENCY_LIMIT == 2

CepLen == 8

\* Jobs the sessions may create in the multi-session specification.
MaxJobs == 2

\* Longest text drawn as a postal code in the normalization specification.
MaxCepLen == 9

Sessions == {1, 2}

Providers == {"BRASILAPI", "VIACEP", "AWESOMEAPI"}

\* tasks = {...} of fetch_all_apis_for_cep: the order of the output rows.
ProviderOrder == <<"BRASILAPI", "VIACEP", "AWESOMEAPI">>

None == "None"

-----------------------------------------------------------------------------
(* Text functions.                                                         *)

Digits == {"0", "1", "2", "3", "4", "5", "6", "7", "8", "9"}

\* str.isdigit(): non-empty and every character a digit.
IsDigitStr(s) == Len(s) > 0 /\ \A i \in 1..Len(s) : s[i] \in Digits

\* Series.astype(str): NaN becomes the text 'nan'.
AsStr(cell) == IF cell = <<>> THEN <<"n", "a", "n">> ELSE cell

\* str.replace(r'\D', '', regex=True)
RECURSIVE StripNonDigits(_)
StripNonDigits(s) ==
    IF s = <<>> THEN <<>>
    ELSE IF Head(s) \in Digits THEN <<Head(s)>> \o StripNonDigits(Tail(s))
         ELSE StripNonDigits(Tail(s))

\* str.zfill(width): left-pad with "0" up to width; longer text is kept.
RECURSIVE ZFill(_, _)
ZFill(s, width) == IF Len(s) >= width THEN s ELSE ZFill(<<"0">> \o s, width)

\* Mutant: the zfill(8) of line 102 left out.
CepNoPad(cell) == StripNonDigits(AsStr(cell))

\* df['cep_padronizado'] (app.py line 102)
CepPadronizado(cell) == ZFill(StripNonDigits(AsStr(cell)), CepLen)

\* Mutant: the isdigit() test of line 46 left out.
IsValidCepLenOnly(cep) == ~(cep = <<>> \/ Len(cep) # CepLen)

\* not (not cep or not cep.isdigit() or len(cep) != 8)  (app.py line 46)
IsValidCep(cep) == ~(cep = <<>> \/ ~IsDigitStr(cep) \/ Len(cep) # CepLen)

\* dict.get(key): None for a missing key.
Get(d, k) == IF k \in DOMAIN d THEN d[k] ELSE None

-----------------------------------------------------------------------------
(* Provider responses: what session.get(...) yields under                  *)
(* gather(return_exceptions=True).                                         *)

Exceptions == {"ReadTimeout", "ConnectError"}

\* HTTP responses: 200 with an address, 404, 200 with {"erro": true} (ViaCEP's
\* not-found), 200 with an empty object, 200 with a body that is not JSON.
HttpKinds == {"ok200", "http404", "erro200", "empty200", "garbage200"}

\* isinstance(res, httpx.Response)
IsResponse(r) == r \in HttpKinds

StatusCode(r) == IF r = "http404" THEN 404 ELSE 200

\* 'erro' in res.text
TextHasErro(r) == r = "erro200"

\* type(res).__name__
TypeName(r) == IF IsResponse(r) THEN "Response" ELSE r

\* The JSON object of a parseable 200 body, with the provider's own field names.
JsonBody(p, r) ==
    CASE r = "ok200" /\ p = "BRASILAPI" ->
            [street |-> "br_street", neighborhood |-> "br_neighborhood",
             city |-> "br_city", state |-> "br_state"]
      [] r = "ok200" /\ p = "VIACEP" ->
            [logradouro |-> "via_logradouro", bairro |-> "via_bairro",
             localidade |-> "via_localidade", uf |-> "via_uf"]
      [] r = "ok200" /\ p = "AWESOMEAPI" ->
            [address |-> "awe_address", district |-> "awe_district",
             city |-> "awe_city", state |-> "awe_state"]
      [] r = "erro200" -> [erro |-> "true"]
      [] OTHER -> <<>>

\* Mutant: ViaCEP's body is parsed like the others', without the test of
\* its text.
ParsesBodyAlike(p, r) ==
    /\ IsResponse(r)
    /\ StatusCode(r) = 200

\* The condition under which res.json() is called (lines 61, 71, 81).
ParsesBody(p, r) ==
    /\ IsResponse(r)
    /\ StatusCode(r) = 200
    /\ (p = "VIACEP" => ~TextHasErro(r))

\* res.json() raises on a body that is not JSON.
JsonRaises(p, r) == ParsesBody(p, r) /\ r = "garbage200"

\* data_br / data_via / data_awe
DataOf(p, r) == IF ParsesBody(p, r) THEN JsonBody(p, r) ELSE <<>>

\* The provider's field names for ENDERECO, BAIRRO, CIDADE, ESTADO.
FieldKeys(p) ==
    CASE p = "BRASILAPI" -> <<"street", "neighborhood", "city", "state">>
      [] p = "VIACEP" -> <<"logradouro", "bairro", "localidade", "uf">>
      [] p = "AWESOMEAPI" -> <<"address", "district", "city", "state">>

\* Mutant: success decided by the kind of object, not by the data.
StatusOfByResponse(p, r) ==
    IF IsResponse(r) THEN <<p, "Sucesso">> ELSE <<p, "Falha", TypeName(r)>>

\* 'X: Sucesso' if data else f'X: Falha ({type(res).__name__})'
StatusOf(p, r) ==
    IF DOMAIN DataOf(p, r) # {} THEN <<p, "Sucesso">>
    ELSE <<p, "Falha", TypeName(r)>>

\* Mutant: every block reads BrasilAPI's field names.
OutputRowBrasilKeys(original_row, p, r) ==
    [PROPOSTA |-> original_row.PROPOSTA,
     CEP      |-> original_row.CEP,
     ENDERECO |-> Get(DataOf(p, r), "street"),
     BAIRRO   |-> Get(DataOf(p, r), "neighborhood"),
     CIDADE   |-> Get(DataOf(p, r), "city"),
     ESTADO   |-> Get(DataOf(p, r), "state"),
     STATUS   |-> IF DOMAIN DataOf(p, r) # {} THEN <<p, "Sucesso">>
                  ELSE <<p, "Falha", TypeName(r)>>]

\* One output_rows.append({...}) of fetch_all_apis_for_cep.
OutputRow(original_row, p, r) ==
    [PROPOSTA |-> original_row.PROPOSTA,
     CEP      |-> original_row.CEP,
     ENDERECO |-> Get(DataOf(p, r), FieldKeys(p)[1]),
     BAIRRO   |-> Get(DataOf(p, r), FieldKeys(p)[2]),
     CIDADE   |-> Get(DataOf(p, r), FieldKeys(p)[3]),
     ESTADO   |-> Get(DataOf(p, r), FieldKeys(p)[4]),
     STATUS   |-> StatusOf(p, r)]

InvalidStatus == <<"Formato de CEP Invalido">>

\* error_row = original_row.copy(); error_row['STATUS'] = ...  (line 47)
ErrorRow(original_row) ==
    [PROPOSTA |-> original_row.PROPOSTA, CEP |-> original_row.CEP,
     STATUS |-> InvalidStatus]

\* The rows fetch_all_apis_for_cep returns once its three calls are back.
OutputRows(original_row, resp) ==
    [i \in 1..3 |-> OutputRow(original_row, ProviderOrder[i], resp[ProviderOrder[i]])]

\* Some res.json() of lines 61, 71, 81 raises.
FetchRaises(resp) == \E p \in Providers : JsonRaises(p, resp[p])

-----------------------------------------------------------------------------
(* The store (database.py).                                                *)

\* INSERT INTO jobs (...): status defaults to PENDENTE, processed_ceps to 0,
\* finished_at to NULL (0).  file stands for the sheet saved at saved_filepath.
create_job(js, file) ==
    Append(js, [status |-> "PENDENTE", total_ceps |-> Len(file),
                processed_ceps |-> 0, finished_at |-> 0, file |-> file])

\* The argument processed_ceps of update_job_status: <<>> when omitted (the
\* default None), <<n>> when given.
Omitted == <<>>

\* update_job_status(job_id, status, processed_ceps=None).  finished_at counts
\* the CURRENT_TIMESTAMP stamps: every stamp gives a new value.
update_job_status(js, job_id, status, processed_ceps) ==
    [js EXCEPT ![job_id] =
        [@ EXCEPT !.status = status,
                  !.processed_ceps =
                      IF processed_ceps # Omitted THEN processed_ceps[1] ELSE @,
                  !.finished_at =
                      IF status \in {"CONCLUIDO", "FALHOU"} THEN @ + 1 ELSE @]]

\* One tuple of rows_to_insert.  by is history, not a column: the session
\* whose run inserted the row.
ResultRow(job_id, r, by) ==
    [job_id |-> job_id, proposta |-> Get(r, "PROPOSTA"),
     cep_original |-> Get(r, "CEP"), endereco |-> Get(r, "ENDERECO"),
     bairro |-> Get(r, "BAIRRO"), cidade |-> Get(r, "CIDADE"),
     estado |-> Get(r, "ESTADO"), status_api |-> Get(r, "STATUS"), by |-> by]

\* save_results_to_db(job_id, results_list): executemany + one commit.
save_results_to_db(rs, job_id, results_list, by) ==
    rs \o [i \in 1..Len(results_list) |-> ResultRow(job_id, results_list[i], by)]

\* The ids get_all_jobs() lists with status PENDENTE: the "Processar" buttons.
\* SELECT ... FROM results WHERE job_id = ?, with no ORDER BY: the rows of the
\* job in the order of their insertion.
get_job_results_as_df(rs, job_id) ==
    LET rows == SelectSeq(rs, LAMBDA r : r.job_id = job_id)
    IN  [i \in 1..Len(rows) |->
            [PROPOSTA |-> rows[i].proposta, CEP |-> rows[i].cep_original,
             ENDERECO |-> rows[i].endereco, BAIRRO |-> rows[i].bairro,
             CIDADE |-> rows[i].cidade, ESTADO |-> rows[i].estado,
             STATUS |-> rows[i].status_api]]

PendingIds(js) == {j \in 1..Len(js) : js[j].status = "PENDENTE"}

-----------------------------------------------------------------------------
(* fetch_all_apis_for_cep, cut at its await.                               *)

NoResp == [p \in Providers |-> "none"]

NewTask(original_row, cep) ==
    [st |-> "new", row |-> original_row, cep |-> cep, resp |-> NoResp, out |-> <<>>]

\* Mutant: only the first provider is called at the start.
FetchBeginFirst(t) ==
    IF ~IsValidCep(t.cep)
    THEN [t EXCEPT !.st = "done", !.out = <<ErrorRow(t.row)>>]
    ELSE [t EXCEPT !.st = "calls", !.resp = [NoResp EXCEPT ![ProviderOrder[1]] = "pending"]]

\* Lines 46-55: an invalid code returns [error_row] at once; a valid one
\* issues the three session.get calls and awaits them.
FetchBegin(t) ==
    IF ~IsValidCep(t.cep)
    THEN [t EXCEPT !.st = "done", !.out = <<ErrorRow(t.row)>>]
    ELSE [t EXCEPT !.st = "calls", !.resp = [p \in Providers |-> "pending"]]

\* Lines 56-89, run when the gather of line 55 has all three results.
FetchEnd(t) ==
    IF FetchRaises(t.resp)
    THEN [t EXCEPT !.st = "raised"]
    ELSE [t EXCEPT !.st = "done", !.out = OutputRows(t.row, t.resp)]

AllBack(resp) == \A p \in Providers : resp[p] # "pending"

\* A response arrives; the last one resumes the coroutine.
Receive(t, p, r) ==
    LET u == [t EXCEPT !.resp[p] = r]
    IN  IF AllBack(u.resp) THEN FetchEnd(u) ELSE u

\* Provider calls of session s that are issued and not yet back.
Outstanding(s) ==
    Cardinality({x \in (1..Len(tasks[s])) \X Providers :
                    tasks[s][x[1]].resp[x[2]] = "pending"})

\* The first task of the gather that has not started, 0 if none.
FirstNew(ts) ==
    IF \E i \in 1..Len(ts) : ts[i].st = "new"
    THEN CHOOSE i \in 1..Len(ts) :
            ts[i].st = "new" /\ \A k \in 1..(i - 1) : ts[k].st # "new"
    ELSE 0

-----------------------------------------------------------------------------
(* Initial state: init_db() on an empty data directory, no page loaded.    *)

Init ==
    /\ jobs = <<>>
    /\ results = <<>>
    /\ pc = [s \in Sessions |-> "idle"]
    /\ view = [s \in Sessions |-> {}]
    /\ clicked = [s \in Sessions |-> 0]
    /\ job = [s \in Sessions |-> 0]
    /\ df = [s \in Sessions |-> <<>>]
    /\ pos = [s \in Sessions |-> 0]
    /\ total = [s \in Sessions |-> 0]
    /\ sem = [s \in Sessions |-> 0]
    /\ tasks = [s \in Sessions |-> <<>>]
    /\ issued = [s \in Sessions |-> <<>>]
    /\ ret = [s \in Sessions |-> <<>>]

-----------------------------------------------------------------------------
(* The UI script (app.py lines 171-246).                                   *)

\* "Criar e Adicionar Job a Fila" (lines 188-198) on an uploaded sheet.
CreateJob(s, file) ==
    /\ pc[s] = "idle"
    /\ Len(jobs) < MaxJobs
    /\ jobs' = create_job(jobs, file)
    /\ UNCHANGED <<results, pc, view, clicked, job, df, pos, total, sem, tasks, issued, ret>>

\* A script run with no button pressed: the queue is listed (line 209) and a
\* "Processar" button is drawn for every PENDENTE job (lines 226-227).
Render(s) ==
    /\ pc[s] = "idle"
    /\ view' = [view EXCEPT ![s] = PendingIds(jobs)]
    /\ UNCHANGED <<jobs, results, pc, clicked, job, df, pos, total, sem, tasks, issued, ret>>

\* The user presses a "Processar" button the page shows: the script reruns.
PressProcessar(s, j) ==
    /\ pc[s] = "idle"
    /\ j \in view[s]
    /\ clicked' = [clicked EXCEPT ![s] = j]
    /\ pc' = [pc EXCEPT ![s] = "list"]
    /\ UNCHANGED <<jobs, results, view, job, df, pos, total, sem, tasks, issued, ret>>

\* Mutant: the rerun starts the oldest PENDENTE job, whichever button was
\* pressed.
ListJobsOldest(s) ==
    /\ pc[s] = "list"
    /\ view' = [view EXCEPT ![s] = PendingIds(jobs)]
    /\ IF PendingIds(jobs) # {}
       THEN /\ pc' = [pc EXCEPT ![s] = "start"]
            /\ job' = [job EXCEPT ![s] =
                         CHOOSE j \in PendingIds(jobs) :
                            \A i \in PendingIds(jobs) : j <= i]
            /\ UNCHANGED clicked
       ELSE /\ pc' = [pc EXCEPT ![s] = "idle"]
            /\ clicked' = [clicked EXCEPT ![s] = 0]
            /\ UNCHANGED job
    /\ UNCHANGED <<jobs, results, df, pos, total, sem, tasks, issued, ret>>

\* The rerun lists the queue (line 209); the pressed button reports the
\* click only if it is drawn again, that is if the job is still listed as
\* PENDENTE (lines 226-228).
ListJobs(s) ==
    /\ pc[s] = "list"
    /\ view' = [view EXCEPT ![s] = PendingIds(jobs)]
    /\ IF clicked[s] \in PendingIds(jobs)
       THEN /\ pc' = [pc EXCEPT ![s] = "start"]
            /\ job' = [job EXCEPT ![s] = clicked[s]]
            /\ UNCHANGED clicked
       ELSE /\ pc' = [pc EXCEPT ![s] = "idle"]
            /\ clicked' = [clicked EXCEPT ![s] = 0]
            /\ UNCHANGED job
    /\ UNCHANGED <<jobs, results, df, pos, total, sem, tasks, issued, ret>>

-----------------------------------------------------------------------------
(* processar_job (app.py lines 92-145).                                    *)

\* Lines 94-100: the job is found and marked PROCESSANDO.
StartJob(s) ==
    /\ pc[s] = "start"
    /\ jobs' = update_job_status(jobs, job[s], "PROCESSANDO", Omitted)
    /\ pc' = [pc EXCEPT ![s] = "load"]
    /\ UNCHANGED <<results, view, clicked, job, df, pos, total, sem, tasks, issued, ret>>

\* Lines 101-105: the sheet is read, cep_padronizado computed, the counter
\* zeroed.  A sheet without rows has no batch.
LoadInput(s) ==
    /\ pc[s] = "load"
    /\ LET file == jobs[job[s]].file
       IN  /\ df' = [df EXCEPT ![s] =
                     [i \in 1..Len(file) |->
                        [PROPOSTA |-> file[i].PROPOSTA, CEP |-> file[i].CEP,
                         cep_padronizado |-> CepPadronizado(file[i].CEP)]]]
           /\ pc' = [pc EXCEPT ![s] = IF Len(file) = 0 THEN "finish" ELSE "batch"]
    /\ pos' = [pos EXCEPT ![s] = 0]
    /\ total' = [total EXCEPT ![s] = 0]
    /\ issued' = [issued EXCEPT ![s] = <<>>]
    /\ UNCHANGED <<jobs, results, view, clicked, job, sem, tasks, ret>>

\* Mutant: one batch of all the remaining rows.
LoteLenAll(s) == Len(df[s]) - pos[s]

\* Rows of the current batch: df.iloc[i:i + BATCH_SIZE].
LoteLen(s) ==
    IF Len(df[s]) - pos[s] < BATCH_SIZE THEN Len(df[s]) - pos[s] ELSE BATCH_SIZE

\* Lines 108-123: a new semaphore and one run_fetch task per row of the batch.
StartBatch(s) ==
    /\ pc[s] = "batch"
    /\ sem' = [sem EXCEPT ![s] = CONCURRENCY_LIMIT]
    /\ tasks' = [tasks EXCEPT ![s] =
                 [i \in 1..LoteLen(s) |->
                    NewTask([PROPOSTA |-> df[s][pos[s] + i].PROPOSTA,
                             CEP |-> df[s][pos[s] + i].CEP],
                            df[s][pos[s] + i].cep_padronizado)]]
    /\ pc' = [pc EXCEPT ![s] = "fetch"]
    /\ UNCHANGED <<jobs, results, view, clicked, job, df, pos, total, issued, ret>>

\* Mutant: the AwesomeAPI request of line 53 left out.
CallsOfTwo(n, t) ==
    IF t.st = "calls"
    THEN [i \in 1..2 |-> [row |-> n, provider |-> ProviderOrder[i], cep |-> t.cep]]
    ELSE <<>>

\* The session.get calls of lines 51-53 a started task has issued for row n,
\* in the order of the dict.
CallsOf(n, t) ==
    IF t.st = "calls"
    THEN [i \in 1..3 |-> [row |-> n, provider |-> ProviderOrder[i], cep |-> t.cep]]
    ELSE <<>>

\* run_fetch (lines 114-121) up to its first await: the tasks run in gather
\* order, each takes a slot of the semaphore (waiters are served first come
\* first served) and enters fetch_all_apis_for_cep; a task that returns
\* without awaiting gives its slot back at once.
TaskStart(s) ==
    /\ pc[s] = "fetch"
    /\ FirstNew(tasks[s]) # 0
    /\ sem[s] > 0
    /\ LET i == FirstNew(tasks[s])
           t == FetchBegin(tasks[s][i])
       IN  /\ tasks' = [tasks EXCEPT ![s][i] = t]
           /\ sem' = [sem EXCEPT ![s] = IF t.st = "calls" THEN @ - 1 ELSE @]
           /\ issued' = [issued EXCEPT ![s] = @ \o CallsOf(pos[s] + i, t)]
    /\ UNCHANGED <<jobs, results, pc, view, clicked, job, df, pos, total, ret>>

\* A provider call of task i comes back with r.  The event loop runs every
\* ready task before it handles a response.  The third response ends the
\* task: its slot is released; an exception of res.json() leaves the gather
\* of line 124 and processar_job enters its except block.
CallReturn(s, i, p, r) ==
    /\ pc[s] = "fetch"
    /\ ~(FirstNew(tasks[s]) # 0 /\ sem[s] > 0)
    /\ i \in 1..Len(tasks[s])
    /\ tasks[s][i].st = "calls"
    /\ tasks[s][i].resp[p] = "pending"
    /\ LET t == Receive(tasks[s][i], p, r)
       IN  /\ tasks' = [tasks EXCEPT ![s][i] = t]
           /\ sem' = [sem EXCEPT ![s] = IF t.st = "calls" THEN @ ELSE @ + 1]
           /\ pc' = [pc EXCEPT ![s] = IF t.st = "raised" THEN "except" ELSE @]
    /\ UNCHANGED <<jobs, results, view, clicked, job, df, pos, total, issued, ret>>

\* Mutant: only the first task's rows are kept.
FlattenFirst(ts) == IF ts = <<>> THEN <<>> ELSE Head(ts).out

RECURSIVE Flatten(_)
\* [item for sublist in results_do_lote_nested for item in sublist]
Flatten(ts) == IF ts = <<>> THEN <<>> ELSE Head(ts).out \o Flatten(Tail(ts))

\* Mutant: the batch's rows are not committed before the loop goes on.
SaveBatchLater(s) ==
    /\ pc[s] = "fetch"
    /\ \A i \in 1..Len(tasks[s]) : tasks[s][i].st = "done"
    /\ pc' = [pc EXCEPT ![s] = "progress"]
    /\ UNCHANGED <<jobs, results, view, clicked, job, df, pos, total, sem, tasks, issued, ret>>

\* Lines 124-128: every task of the batch is done; the rows are flattened in
\* task order and committed.
SaveBatch(s) ==
    /\ pc[s] = "fetch"
    /\ \A i \in 1..Len(tasks[s]) : tasks[s][i].st = "done"
    /\ results' = save_results_to_db(results, job[s], Flatten(tasks[s]), s)
    /\ pc' = [pc EXCEPT ![s] = "progress"]
    /\ UNCHANGED <<jobs, view, clicked, job, df, pos, total, sem, tasks, issued, ret>>

\* Line 128 when the store refuses the insert (sqlite3.OperationalError, for
\* instance "database is locked"): save_results_to_db raises before its
\* commit, no row of the batch is stored, and processar_job enters its except
\* block.
SaveRaises(s) ==
    /\ pc[s] = "fetch"
    /\ \A i \in 1..Len(tasks[s]) : tasks[s][i].st = "done"
    /\ pc' = [pc EXCEPT ![s] = "except"]
    /\ UNCHANGED <<jobs, results, view, clicked, job, df, pos, total, sem, tasks, issued, ret>>

\* Lines 130-137: the counter is stored with status PROCESSANDO; after the
\* pause the next batch starts, or the loop ends.
UpdateProgress(s) ==
    /\ pc[s] = "progress"
    /\ total' = [total EXCEPT ![s] = @ + Len(tasks[s])]
    /\ jobs' = update_job_status(jobs, job[s], "PROCESSANDO", <<total'[s]>>)
    /\ tasks' = [tasks EXCEPT ![s] = <<>>]
    /\ IF pos[s] + BATCH_SIZE < Len(df[s])
       THEN /\ pos' = [pos EXCEPT ![s] = @ + BATCH_SIZE]
            /\ pc' = [pc EXCEPT ![s] = "batch"]
       ELSE /\ pc' = [pc EXCEPT ![s] = "finish"]
            /\ UNCHANGED pos
    /\ UNCHANGED <<results, view, clicked, job, df, sem, issued, ret>>

\* Line 139, then lines 229-230: the job is marked CONCLUIDO, processar_job
\* returns (its locals are gone) and the page reruns.  job keeps the id of the
\* run that completed, as history.
Finish(s) ==
    /\ pc[s] = "finish"
    /\ jobs' = update_job_status(jobs, job[s], "CONCLUIDO", Omitted)
    /\ pc' = [pc EXCEPT ![s] = "idle"]
    /\ clicked' = [clicked EXCEPT ![s] = 0]
    /\ df' = [df EXCEPT ![s] = <<>>]
    /\ pos' = [pos EXCEPT ![s] = 0]
    /\ total' = [total EXCEPT ![s] = 0]
    /\ sem' = [sem EXCEPT ![s] = 0]
    /\ UNCHANGED <<results, view, job, tasks, issued, ret>>

\* Mutant: the except block also deletes the records of the job.
HandleExceptionRollback(s) ==
    /\ pc[s] = "except"
    /\ jobs' = update_job_status(jobs, job[s], "FALHOU", Omitted)
    /\ results' = SelectSeq(results, LAMBDA r : r.job_id # job[s])
    /\ pc' = [pc EXCEPT ![s] = "idle"]
    /\ clicked' = [clicked EXCEPT ![s] = 0]
    /\ job' = [job EXCEPT ![s] = 0]
    /\ df' = [df EXCEPT ![s] = <<>>]
    /\ pos' = [pos EXCEPT ![s] = 0]
    /\ total' = [total EXCEPT ![s] = 0]
    /\ sem' = [sem EXCEPT ![s] = 0]
    /\ tasks' = [tasks EXCEPT ![s] = <<>>]
    /\ UNCHANGED <<view, issued, ret>>

\* Lines 142-145: the job is marked FALHOU and the page reruns.
HandleException(s) ==
    /\ pc[s] = "except"
    /\ jobs' = update_job_status(jobs, job[s], "FALHOU", Omitted)
    /\ pc' = [pc EXCEPT ![s] = "idle"]
    /\ clicked' = [clicked EXCEPT ![s] = 0]
    /\ job' = [job EXCEPT ![s] = 0]
    /\ df' = [df EXCEPT ![s] = <<>>]
    /\ pos' = [pos EXCEPT ![s] = 0]
    /\ total' = [total EXCEPT ![s] = 0]
    /\ sem' = [sem EXCEPT ![s] = 0]
    /\ tasks' = [tasks EXCEPT ![s] = <<>>]
    /\ UNCHANGED <<results, view, issued, ret>>

-----------------------------------------------------------------------------
(* fetch_all_apis_for_cep called on its own, with any text as cep.         *)

\* The call up to its await (lines 46-55); an invalid code returns at once.
\* tasks keeps the call and its argument.
FetchCall(s, original_row, cep) ==
    /\ pc[s] = "idle"
    /\ LET t == FetchBegin(NewTask(original_row, cep))
       IN  /\ issued' = [issued EXCEPT ![s] = CallsOf(1, t)]
           /\ tasks' = [tasks EXCEPT ![s] = <<t>>]
           /\ ret' = [ret EXCEPT ![s] = t.out]
           /\ pc' = [pc EXCEPT ![s] = IF t.st = "done" THEN "idle" ELSE "direct"]
    /\ UNCHANGED <<jobs, results, view, clicked, job, df, pos, total, sem>>

\* A response of the direct call; the third one ends it (lines 56-89): the
\* rows are returned, or the exception of res.json() reaches the caller.
FetchReturn(s, p, r) ==
    /\ pc[s] = "direct"
    /\ tasks[s][1].resp[p] = "pending"
    /\ LET t == Receive(tasks[s][1], p, r)
       IN  /\ tasks' = [tasks EXCEPT ![s] = <<t>>]
           /\ pc' = [pc EXCEPT ![s] = IF t.st = "calls" THEN "direct" ELSE "idle"]
           /\ ret' = [ret EXCEPT ![s] = t.out]
    /\ UNCHANGED <<jobs, results, view, clicked, job, df, pos, total, sem, issued>>

-----------------------------------------------------------------------------
(* The server process stops and is started again.                          *)

\* Mutant: the start puts the jobs found PROCESSANDO back to PENDENTE.
RestartRequeue ==
    /\ jobs' = [j \in 1..Len(jobs) |->
                   IF jobs[j].status = "PROCESSANDO"
                   THEN [jobs[j] EXCEPT !.status = "PENDENTE"]
                   ELSE jobs[j]]
    /\ pc' = [s \in Sessions |-> "idle"]
    /\ view' = [s \in Sessions |-> {}]
    /\ clicked' = [s \in Sessions |-> 0]
    /\ job' = [s \in Sessions |-> 0]
    /\ df' = [s \in Sessions |-> <<>>]
    /\ pos' = [s \in Sessions |-> 0]
    /\ total' = [s \in Sessions |-> 0]
    /\ sem' = [s \in Sessions |-> 0]
    /\ tasks' = [s \in Sessions |-> <<>>]
    /\ issued' = [s \in Sessions |-> <<>>]
    /\ ret' = [s \in Sessions |-> <<>>]
    /\ UNCHANGED results

\* Every script run and its locals are gone with the process; the store is a
\* file and stays.  On the start app.py line 26 calls init_db, which creates
\* the directory and the two tables if they do not exist and writes nothing
\* else.
Restart ==
    /\ pc' = [s \in Sessions |-> "idle"]
    /\ view' = [s \in Sessions |-> {}]
    /\ clicked' = [s \in Sessions |-> 0]
    /\ job' = [s \in Sessions |-> 0]
    /\ df' = [s \in Sessions |-> <<>>]
    /\ pos' = [s \in Sessions |-> 0]
    /\ total' = [s \in Sessions |-> 0]
    /\ sem' = [s \in Sessions |-> 0]
    /\ tasks' = [s \in Sessions |-> <<>>]
    /\ issued' = [s \in Sessions |-> <<>>]
    /\ ret' = [s \in Sessions |-> <<>>]
    /\ UNCHANGED <<jobs, results>>

-----------------------------------------------------------------------------
(* Inputs.                                                                 *)

Row(proposta, cep) == [PROPOSTA |-> proposta, CEP |-> cep]

\* '01001-000'
CepMasked == <<"0", "1", "0", "0", "1", "-", "0", "0", "0">>

\* '1001000': the same code as a number cell, its leading zero lost
CepNumber == <<"1", "0", "0", "1", "0", "0", "0">>

\* '123'
CepShort == <<"1", "2", "3">>

\* '123456789'
CepLong == <<"1", "2", "3", "4", "5", "6", "7", "8", "9">>

\* '12.345.678-90'
CepLonger == <<"1", "2", ".", "3", "4", "5", ".", "6", "7", "8", "-", "9", "0">>

\* an empty cell
CepEmpty == <<>>

\* Rows of the sheets of the single-run specification.
MaxRows == 4

SheetRows ==
    <<Row("P1", CepMasked), Row("P2", CepNumber), Row("P3", CepShort),
      Row("P4", CepLong), Row("P5", CepLonger), Row("P6", CepLong)>>

\* Sheets of 0..MaxRows rows: two batches from BATCH_SIZE + 1 rows on.
RunFiles == {SubSeq(SheetRows, 1, n) : n \in 0..MaxRows}

RunKinds == {"ok200", "ReadTimeout", "garbage200"}

\* One-row sheets for the per-code specification, with every response.
FetchFiles == {<<Row("P1", c)>> : c \in {CepMasked, CepShort, CepEmpty, CepLong}}

AllKinds == Exceptions \cup HttpKinds

\* Sheets of the multi-session specification: four rows (two batches) whose
\* codes are too long, and one row with a valid code.
SysFiles ==
    {<<Row("P1", CepLong), Row("P2", CepLonger), Row("P3", CepLong), Row("P4", CepLonger)>>,
     <<Row("P1", CepNumber)>>}

SysKinds == {"ok200", "garbage200"}

\* Every text of at most n characters over a digit and a non-digit.
Texts(n) == UNION {[1..k -> {"1", "-"}] : k \in 0..n}

CepKinds == {"ok200", "http404"}

\* Sheets of the failing-run specification: two batches, each with a row of
\* valid code (the first batch stores 3 + 1 + 1 records), and a sheet of two
\* valid codes.
FailFiles ==
    {<<Row("P1", CepMasked), Row("P2", CepLonger), Row("P3", CepLong), Row("P4", CepNumber)>>,
     <<Row("P1", CepMasked), Row("P2", CepNumber)>>}

-----------------------------------------------------------------------------
(* Specifications.                                                         *)

\* Several sessions on one store.
Next ==
    \E s \in Sessions :
        \/ \E f \in SysFiles : CreateJob(s, f)
        \/ Render(s)
        \/ \E j \in 1..MaxJobs : PressProcessar(s, j)
        \/ ListJobs(s)
        \/ StartJob(s)
        \/ LoadInput(s)
        \/ StartBatch(s)
        \/ TaskStart(s)
        \/ \E i \in 1..BATCH_SIZE, p \in Providers, r \in SysKinds : CallReturn(s, i, p, r)
        \/ SaveBatch(s)
        \/ UpdateProgress(s)
        \/ Finish(s)
        \/ HandleException(s)

Spec == Init /\ [][Next]_vars

\* One session, one job of several rows and batches.
NextRun ==
    \/ \E f \in RunFiles : jobs = <<>> /\ CreateJob(1, f)
    \/ Render(1)
    \/ PressProcessar(1, 1)
    \/ ListJobs(1)
    \/ StartJob(1)
    \/ LoadInput(1)
    \/ StartBatch(1)
    \/ TaskStart(1)
    \/ \E i \in 1..BATCH_SIZE, p \in Providers, r \in RunKinds : CallReturn(1, i, p, r)
    \/ SaveBatch(1)
    \/ UpdateProgress(1)
    \/ Finish(1)
    \/ HandleException(1)

SpecRun == Init /\ [][NextRun]_vars

\* One session, one job of one row, every kind of provider response.
NextFetch ==
    \/ \E f \in FetchFiles : jobs = <<>> /\ CreateJob(1, f)
    \/ Render(1)
    \/ PressProcessar(1, 1)
    \/ ListJobs(1)
    \/ StartJob(1)
    \/ LoadInput(1)
    \/ StartBatch(1)
    \/ TaskStart(1)
    \/ \E p \in Providers, r \in AllKinds : CallReturn(1, 1, p, r)
    \/ SaveBatch(1)
    \/ UpdateProgress(1)
    \/ Finish(1)
    \/ HandleException(1)

SpecFetch == Init /\ [][NextFetch]_vars

\* Nothing has been done yet.
Fresh == jobs = <<>> /\ tasks[1] = <<>>

\* Normalization and validation over every text of at most MaxCepLen
\* characters: as the cell of a one-row job, and as the argument of a direct
\* call of fetch_all_apis_for_cep.
NextCep ==
    \/ Fresh /\ \E c \in Texts(MaxCepLen) : CreateJob(1, <<Row("P1", c)>>)
    \/ Render(1)
    \/ PressProcessar(1, 1)
    \/ ListJobs(1)
    \/ StartJob(1)
    \/ LoadInput(1)
    \/ StartBatch(1)
    \/ TaskStart(1)
    \/ \E p \in Providers, r \in CepKinds : CallReturn(1, 1, p, r)
    \/ SaveBatch(1)
    \/ UpdateProgress(1)
    \/ Finish(1)
    \/ Fresh /\ \E c \in Texts(MaxCepLen) : FetchCall(1, Row("P1", c), c)
    \/ \E p \in Providers, r \in CepKinds : FetchReturn(1, p, r)

SpecCep == Init /\ [][NextCep]_vars

\* One session, one job; the store may refuse the insert of a batch.
NextFail ==
    \/ \E f \in FailFiles : jobs = <<>> /\ CreateJob(1, f)
    \/ Render(1)
    \/ PressProcessar(1, 1)
    \/ ListJobs(1)
    \/ StartJob(1)
    \/ LoadInput(1)
    \/ StartBatch(1)
    \/ TaskStart(1)
    \/ \E i \in 1..BATCH_SIZE, p \in Providers, r \in RunKinds : CallReturn(1, i, p, r)
    \/ SaveBatch(1)
    \/ SaveRaises(1)
    \/ UpdateProgress(1)
    \/ Finish(1)
    \/ HandleException(1)

SpecFail == Init /\ [][NextFail]_vars

\* One session working through a queue of jobs, and process restarts.
NextQueue ==
    \/ \E f \in SysFiles : CreateJob(1, f)
    \/ Render(1)
    \/ \E j \in 1..MaxJobs : PressProcessar(1, j)
    \/ ListJobs(1)
    \/ StartJob(1)
    \/ LoadInput(1)
    \/ StartBatch(1)
    \/ TaskStart(1)
    \/ \E i \in 1..BATCH_SIZE, p \in Providers, r \in SysKinds : CallReturn(1, i, p, r)
    \/ SaveBatch(1)
    \/ UpdateProgress(1)
    \/ Finish(1)
    \/ HandleException(1)
    \/ Restart

SpecQueue == Init /\ [][NextQueue]_vars

-----------------------------------------------------------------------------
(* Properties.                                                             *)

JobIds == 1..Len(jobs)

\* The records session s's run inserted for job j and the row with this
\* proposta.
RecordsOf(j, s, proposta) ==
    {k \in 1..Len(results) :
        /\ results[k].job_id = j
        /\ results[k].by = s
        /\ results[k].proposta = proposta}

\* The log entries of session s for row n and provider p.
CallsFor(s, n, p) ==
    {k \in 1..Len(issued[s]) : issued[s][k].row = n /\ issued[s][k].provider = p}

\* Session s has run job[s] to the end and marked it CONCLUIDO.
RunCompleted(s) == job[s] # 0 /\ pc[s] \in {"idle", "list"}

\* The digits of a cell, in order, and their number.
DigitsOf(cell) == SelectSeq(cell, LAMBDA c : c \in Digits)

DigitCount(cell) == Len(DigitsOf(cell))

\* Exactly eight digits.
EightDigits(cep) == Len(cep) = 8 /\ \A i \in 1..Len(cep) : cep[i] \in Digits

\* The digits of a cell of at most eight digits, zero-padded on the left.
PaddedDigits(cell) ==
    [k \in 1..8 |->
        IF k <= 8 - DigitCount(cell) THEN "0"
        ELSE DigitsOf(cell)[k - (8 - DigitCount(cell))]]

\* What a provider's answer means: the address was found, or the provider
\* failed or reported not-found (ViaCEP does so with 200 and an 'erro' flag).
ReportsSuccess(r) == r = "ok200"

ReportsFailure(p, r) ==
    \/ r \in Exceptions
    \/ r \in {"http404", "empty200"}
    \/ p = "VIACEP" /\ r = "erro200"

\* The label of a failure status: the exception's name, or "Response".
FailureLabel(r) == IF r \in Exceptions THEN r ELSE "Response"

\* The address a provider's success body carries.
AddressOf(p) ==
    CASE p = "BRASILAPI" ->
            <<"br_street", "br_neighborhood", "br_city", "br_state">>
      [] p = "VIACEP" ->
            <<"via_logradouro", "via_bairro", "via_localidade", "via_uf">>
      [] p = "AWESOMEAPI" ->
            <<"awe_address", "awe_district", "awe_city", "awe_state">>

FieldsOf(rec) == <<rec.endereco, rec.bairro, rec.cidade, rec.estado>>

NoAddress == <<None, None, None, None>>

\* The stored records of the row of task i of session s's batch.
TaskRecords(s, i) ==
    {results[k] : k \in RecordsOf(job[s], s, tasks[s][i].row.PROPOSTA)}

\* C1: at most one job has status PROCESSANDO in every reachable state.
C1_AtMostOneRunning ==
    Cardinality({j \in JobIds : jobs[j].status = "PROCESSANDO"}) <= 1

\* C2: no step lowers a job's stored processed_ceps, and the counter never
\* exceeds total_ceps.
C2_ProcessedMonotoneBounded ==
    [][\A j \in JobIds :
          /\ jobs'[j].processed_ceps >= jobs[j].processed_ceps
          /\ jobs'[j].processed_ceps <= jobs'[j].total_ceps]_vars

\* C3 as claimed: a job that is CONCLUIDO has as many result records as input
\* rows.
C3_OneRecordPerRow ==
    \A j \in JobIds :
        jobs[j].status = "CONCLUIDO" =>
            Cardinality({k \in 1..Len(results) : results[k].job_id = j})
                = Len(jobs[j].file)

\* C3 as amended: a run that has marked its job CONCLUIDO has stored, for
\* every input row, three records if the row's normalized code is valid and
\* one record otherwise.
C3_RecordsPerRun ==
    \A s \in Sessions :
        RunCompleted(s) =>
            \A i \in 1..Len(jobs[job[s]].file) :
                LET row == jobs[job[s]].file[i]
                IN  Cardinality(RecordsOf(job[s], s, row.PROPOSTA))
                        = IF DigitCount(row.CEP) <= 8 THEN 3 ELSE 1

C3_Witness ==
    \E s \in Sessions :
        /\ RunCompleted(s)
        /\ jobs[job[s]].status = "CONCLUIDO"
        /\ Len(jobs[job[s]].file) = 4
        /\ Len(results) = 10

\* C4 as claimed: within a run no two provider calls are issued for the same
\* normalized code and provider.
C4_ResolvedOnce ==
    \A s \in Sessions :
        \A a, b \in 1..Len(issued[s]) :
            (/\ issued[s][a].cep = issued[s][b].cep
             /\ issued[s][a].provider = issued[s][b].provider) => a = b

\* A row whose task has entered fetch_all_apis_for_cep in the current run.
Started(s, n) ==
    \/ n <= total[s]
    \/ /\ pos[s] < n
       /\ n - pos[s] <= Len(tasks[s])
       /\ tasks[s][n - pos[s]].st # "new"

\* C4 as amended: within a run, every started row with a valid normalized
\* code has exactly one call per provider, issued for its own code, whether
\* or not another row has the same code; a row with an invalid code has none.
C4_CallsPerRow ==
    \A s \in Sessions :
        df[s] # <<>> =>
            /\ \A n \in 1..Len(df[s]), p \in Providers :
                  Cardinality(CallsFor(s, n, p))
                      = IF Started(s, n) /\ EightDigits(df[s][n].cep_padronizado)
                        THEN 1 ELSE 0
            /\ \A k \in 1..Len(issued[s]) :
                  /\ issued[s][k].row \in 1..Len(df[s])
                  /\ issued[s][k].cep = df[s][issued[s][k].row].cep_padronizado

C4_Witness ==
    \E s \in Sessions :
        \E a, b \in 1..Len(issued[s]) :
            /\ issued[s][a].row # issued[s][b].row
            /\ issued[s][a].cep = issued[s][b].cep
            /\ issued[s][a].provider = issued[s][b].provider

\* The first provider after BrasilAPI, in priority order, that succeeded for
\* a task whose BrasilAPI call failed; "" if there is none.
FallbackWinner(t) ==
    IF ~ReportsFailure("BRASILAPI", t.resp["BRASILAPI"]) THEN ""
    ELSE IF ReportsSuccess(t.resp["VIACEP"]) THEN "VIACEP"
    ELSE IF ReportsFailure("VIACEP", t.resp["VIACEP"])
            /\ ReportsSuccess(t.resp["AWESOMEAPI"]) THEN "AWESOMEAPI"
    ELSE ""

AllFailed(t) ==
    /\ t.st = "done"
    /\ \A p \in Providers : ReportsFailure(p, t.resp[p])

C7_ShortIsInvalid ==
    \A s \in Sessions :
        pc[s] = "progress" =>
            \A i \in 1..Len(tasks[s]) :
                DigitCount(tasks[s][i].row.CEP) < 8 =>
                    /\ \A p \in Providers : CallsFor(s, pos[s] + i, p) = {}
                    /\ TaskRecords(s, i) # {}
                    /\ \A rec \in TaskRecords(s, i) : rec.status_api = InvalidStatus

\* C7 as amended: a cell with at most eight digits is zero-padded to eight
\* digits and sent to the three providers, and none of its records has the
\* invalid-format status; only a cell with more than eight digits is stored
\* with the invalid-format status (one record) and no provider call.
C7_ShortIsPadded ==
    \A s \in Sessions :
        pc[s] = "progress" =>
            \A i \in 1..Len(tasks[s]) :
                LET cell == tasks[s][i].row.CEP
                IN  /\ DigitCount(cell) <= 8 =>
                          /\ \A p \in Providers :
                                /\ Cardinality(CallsFor(s, pos[s] + i, p)) = 1
                                /\ \A k \in CallsFor(s, pos[s] + i, p) :
                                      issued[s][k].cep = PaddedDigits(cell)
                          /\ Cardinality(TaskRecords(s, i)) = 3
                          /\ \A rec \in TaskRecords(s, i) : rec.status_api # InvalidStatus
                    /\ DigitCount(cell) > 8 =>
                          /\ \A p \in Providers : CallsFor(s, pos[s] + i, p) = {}
                          /\ Cardinality(RecordsOf(job[s], s, tasks[s][i].row.PROPOSTA)) = 1
                          /\ \A rec \in TaskRecords(s, i) : rec.status_api = InvalidStatus

C7_Witness ==
    \E s \in Sessions :
        /\ pc[s] = "progress"
        /\ Len(tasks[s]) = 1
        /\ tasks[s][1].row.CEP = <<"1", "-", "1", "1">>
        /\ Len(issued[s]) = 3
        /\ issued[s][1].cep = <<"0", "0", "0", "0", "0", "1", "1", "1">>
        /\ \E rec \in TaskRecords(s, 1) : rec.status_api = <<"BRASILAPI", "Sucesso">>

\* C8: a call of fetch_all_apis_for_cep whose code is not exactly eight
\* digits returns one record with the invalid-format status, and no
\* provider request is issued for that code.
C8_InvalidNeverSent ==
    \A s \in Sessions :
        \A i \in 1..Len(tasks[s]) :
            LET t == tasks[s][i]
            IN  (t.st # "new" /\ ~EightDigits(t.cep)) =>
                    /\ t.st = "done"
                    /\ t.out = <<[PROPOSTA |-> t.row.PROPOSTA, CEP |-> t.row.CEP,
                                  STATUS |-> InvalidStatus]>>
                    /\ \A k \in 1..Len(issued[s]) : issued[s][k].cep # t.cep
                    /\ \A p \in Providers : t.resp[p] = "none"
                    /\ (pc[s] = "idle" /\ jobs = <<>>) => ret[s] = t.out

C8_Witness ==
    \E s \in Sessions :
        /\ jobs = <<>>
        /\ pc[s] = "idle"
        /\ Len(tasks[s]) = 1
        /\ tasks[s][1].cep = <<"1", "1", "1", "1", "-", "1", "1", "1">>
        /\ Len(ret[s]) = 1
        /\ ret[s][1].STATUS = InvalidStatus
        /\ issued[s] = <<>>

\* C9: the provider calls of a batch that are outstanding never number more
\* than CONCURRENCY_LIMIT.
C9_OutstandingAtMostLimit ==
    \A s \in Sessions : Outstanding(s) <= CONCURRENCY_LIMIT

\* C10: a failure of one code's provider calls never moves the job to FALHOU.
C10_NeverFailed ==
    \A j \in JobIds : jobs[j].status # "FALHOU"


\* C11: when an exception leaves the resolve step or the persist step of a
\* batch, the store is left as it was and holds the records of every row of
\* the earlier batches; the except block then marks the job FALHOU, ends the
\* run and leaves the records alone; no run is in the batch loop of a job
\* that is FALHOU; and no step removes or changes a stored record.
C11_FailureKeepsEarlierBatches ==
    [][/\ \A s \in Sessions :
             /\ (pc[s] # "except" /\ pc'[s] = "except") =>
                    /\ results' = results
                    /\ \A m \in 1..pos[s] :
                          RecordsOf(job[s], s, df[s][m].PROPOSTA) # {}
             /\ (pc[s] = "except" /\ pc'[s] # "except") =>
                    /\ jobs'[job[s]].status = "FALHOU"
                    /\ pc'[s] = "idle"
                    /\ tasks'[s] = <<>>
                    /\ results' = results
       /\ \A j \in 1..Len(jobs') :
             jobs'[j].status = "FALHOU" =>
                \A s \in Sessions :
                    ~(job'[s] = j /\ pc'[s] \in {"batch", "fetch", "progress"})
       /\ Len(results) <= Len(results')
       /\ results = SubSeq(results', 1, Len(results))]_vars

\* A job is FALHOU after its second batch failed, with the five records of
\* its first batch stored.
C11_Witness ==
    /\ jobs # <<>>
    /\ jobs[1].status = "FALHOU"
    /\ jobs[1].processed_ceps = BATCH_SIZE
    /\ Len(jobs[1].file) > BATCH_SIZE
    /\ Len(results) = 5
    /\ pc[1] = "idle"

\* The stored records of job j, in store order.
JobRecords(rs, j) == SelectSeq(rs, LAMBDA r : r.job_id = j)

\* C12: no step changes the status, processed_ceps, finished_at or result
\* records of a job whose status is CONCLUIDO or FALHOU.
C12_TerminalImmutable ==
    [][\A j \in JobIds :
          jobs[j].status \in {"CONCLUIDO", "FALHOU"} =>
              /\ jobs'[j].status = jobs[j].status
              /\ jobs'[j].processed_ceps = jobs[j].processed_ceps
              /\ jobs'[j].finished_at = jobs[j].finished_at
              /\ JobRecords(results', j) = JobRecords(results, j)]_vars

\* The input row of job j a returned record belongs to (the sheets give every
\* row its own PROPOSTA).
RowIndex(j, rec) ==
    CHOOSE i \in 1..Len(jobs[j].file) : jobs[j].file[i].PROPOSTA = rec.PROPOSTA

\* C13: the records get_job_results_as_df returns for a job that is CONCLUIDO
\* are in the order of the input rows.
C13_InputOrder ==
    \A j \in JobIds :
        jobs[j].status = "CONCLUIDO" =>
            LET d == get_job_results_as_df(results, j)
            IN  \A a, b \in 1..Len(d) :
                    a < b => RowIndex(j, d[a]) <= RowIndex(j, d[b])

\* Job j goes from PENDENTE to PROCESSANDO in this step.
Starts(j) == jobs[j].status = "PENDENTE" /\ jobs'[j].status = "PROCESSANDO"

\* C14 as claimed: a job leaves PENDENTE for PROCESSANDO only when no job
\* created before it is still PENDENTE.
C14_StartedInCreationOrder ==
    [][\A j \in JobIds :
          Starts(j) => \A i \in 1..(j - 1) : jobs[i].status # "PENDENTE"]_vars

\* C14 as amended: a job leaves PENDENTE for PROCESSANDO only in the run of a
\* session whose user pressed the "Processar" button of that very job, whatever
\* the status of the jobs created before it.
C14_StartedWhenPressed ==
    [][\A j \in JobIds :
          Starts(j) =>
              \E s \in Sessions :
                  /\ pc[s] = "start" /\ pc'[s] = "load"
                  /\ clicked[s] = j
                  /\ job[s] = j]_vars

\* The second job is running while the first one is still PENDENTE.
C14_Witness ==
    /\ Len(jobs) >= 2
    /\ jobs[1].status = "PENDENTE"
    /\ jobs[2].status = "PROCESSANDO"

\* Session s is inside processar_job for job j.
Executing(s, j) ==
    /\ job[s] = j
    /\ pc[s] \in {"start", "load", "batch", "fetch", "progress", "finish", "except"}

\* Nothing executes job j although the store reports it PROCESSANDO.
Orphan(j) ==
    jobs[j].status = "PROCESSANDO" /\ \A s \in Sessions : ~Executing(s, j)

\* C15: a step that ends a run anywhere before its last status update (the
\* process stops) leaves the job's stored row as it is, and a job that is
\* PROCESSANDO with no run executing it keeps its stored row in every step
\* and is taken up by no run.
C15_OrphanStaysRunning ==
    [][\A j \in JobIds :
          /\ \A s \in Sessions :
                (/\ Executing(s, j)
                 /\ pc[s] \notin {"finish", "except"}
                 /\ pc'[s] = "idle") => jobs'[j] = jobs[j]
          /\ Orphan(j) => jobs'[j] = jobs[j] /\ Orphan(j)']_vars

\* After a restart the first job is still PROCESSANDO with nothing executing
\* it, while the session has since run the second job to the end.
C15_Witness ==
    /\ Len(jobs) >= 2
    /\ Orphan(1)
    /\ jobs[1].processed_ceps > 0
    /\ jobs[2].status = "CONCLUIDO"

\* The tasks of session s's current batch.
TaskIds(s) == 1..Len(tasks[s])

\* C16 as claimed: for one code at most one provider call is outstanding at a
\* time, and when a provider has answered with a success no provider after
\* it in the order has been called.
C16_OneAtATime ==
    \A s \in Sessions : \A i \in TaskIds(s) :
        LET resp == tasks[s][i].resp
        IN  /\ Cardinality({p \in Providers : resp[p] = "pending"}) <= 1
            /\ \A a, b \in 1..Len(ProviderOrder) :
                  (a < b /\ ReportsSuccess(resp[ProviderOrder[a]]))
                      => resp[ProviderOrder[b]] = "none"

\* C16 as amended: a code of valid format has all three providers called as
\* soon as its task starts, whatever any of them answers, and the three
\* requests are issued together in the order BRASILAPI, VIACEP, AWESOMEAPI;
\* a task that has not started, or whose code is invalid, has called none.
C16_AllCalledTogether ==
    \A s \in Sessions :
        /\ \A i \in TaskIds(s) :
              LET t == tasks[s][i]
              IN  \A p \in Providers :
                      (t.resp[p] # "none") <=> (t.st # "new" /\ EightDigits(t.cep))
        /\ \A k \in 1..Len(issued[s]) :
              LET n == ((k - 1) % 3) + 1
                  first == k - (n - 1)
              IN  /\ issued[s][k].provider = ProviderOrder[n]
                  /\ first + 2 <= Len(issued[s])
                  /\ issued[s][k].row = issued[s][first].row

\* The first provider has answered with a success while the calls of the
\* other two are outstanding.
C16_Witness ==
    \E s \in Sessions :
        /\ pc[s] = "fetch"
        /\ Len(tasks[s]) = 1
        /\ tasks[s][1].resp["BRASILAPI"] = "ok200"
        /\ tasks[s][1].resp["VIACEP"] = "pending"
        /\ tasks[s][1].resp["AWESOMEAPI"] = "pending"

\* The number of rows in the batches before the batch of row n.
RowsBefore(n) == ((n - 1) \div BATCH_SIZE) * BATCH_SIZE

\* Session s's run has committed every record of its input row m.
Committed(s, m) ==
    Cardinality(RecordsOf(job[s], s, df[s][m].PROPOSTA))
        = IF EightDigits(df[s][m].cep_padronizado) THEN 3 ELSE 1

\* C17: within a run, whenever a provider call has been issued for a row,
\* every record of every row of the earlier batches is committed.
C17_BatchCommittedBeforeNext ==
    \A s \in Sessions :
        df[s] # <<>> =>
            \A k \in 1..Len(issued[s]) :
                \A m \in 1..RowsBefore(issued[s][k].row) : Committed(s, m)

\* A provider call of the second batch is outstanding, the first batch's
\* records being stored.
C17_Witness ==
    \E s \in Sessions :
        /\ pc[s] = "fetch"
        /\ pos[s] = BATCH_SIZE
        /\ \E k \in 1..Len(issued[s]) : issued[s][k].row = BATCH_SIZE + 1
        /\ Outstanding(s) > 0
        /\ \A m \in 1..BATCH_SIZE : Committed(s, m)
        /\ Len(results) = 5

\* Input row n of session s's run is resolved: its task has returned its
\* output rows, in the current batch or in an earlier one.
Resolved(s, n) ==
    \/ n <= pos[s]
    \/ /\ pos[s] < n
       /\ n - pos[s] <= Len(tasks[s])
       /\ tasks[s][n - pos[s]].st = "done"

\* The rows of the run that are resolved and have no record committed.
Uncommitted(s) ==
    {n \in 1..Len(df[s]) :
        Resolved(s, n) /\ RecordsOf(job[s], s, df[s][n].PROPOSTA) = {}}

\* C18: during a run every input row counted in the stored processed_ceps
\* has all its records committed, and at most BATCH_SIZE rows are resolved
\* without being committed.
C18_CountedRowsCommitted ==
    \A s \in Sessions :
        df[s] # <<>> =>
            /\ jobs[job[s]].processed_ceps <= Len(df[s])
            /\ \A m \in 1..jobs[job[s]].processed_ceps : Committed(s, m)
            /\ Cardinality(Uncommitted(s)) <= BATCH_SIZE

\* The first batch is counted and committed, and the second batch is
\* resolved and not yet committed.
C18_Witness ==
    \E s \in Sessions :
        /\ pc[s] = "fetch"
        /\ jobs[job[s]].processed_ceps = BATCH_SIZE
        /\ Uncommitted(s) = {BATCH_SIZE + 1}

\* The ViaCEP row among the rows a finished task returned.
ViaCepRows(t) ==
    {k \in 1..Len(t.out) : t.out[k].STATUS[1] = "VIACEP"}

\* C19: when ViaCEP answered 200 with the 'erro' flag, the ViaCEP row the
\* task returns, and the ViaCEP record stored for the row, have the status
\* 'VIACEP: Falha (Response)' and no address field, and no record of the row
\* says 'VIACEP: Sucesso'.
C19_ViaCepErroIsFailure ==
    \A s \in Sessions : \A i \in TaskIds(s) :
        LET t == tasks[s][i]
        IN  (t.st = "done" /\ t.resp["VIACEP"] = "erro200") =>
                /\ ViaCepRows(t) # {}
                /\ \A k \in ViaCepRows(t) :
                      /\ t.out[k].STATUS = <<"VIACEP", "Falha", "Response">>
                      /\ t.out[k].ENDERECO = None /\ t.out[k].BAIRRO = None
                      /\ t.out[k].CIDADE = None /\ t.out[k].ESTADO = None
                /\ pc[s] = "progress" =>
                      /\ \E rec \in TaskRecords(s, i) :
                            /\ rec.status_api = <<"VIACEP", "Falha", "Response">>
                            /\ FieldsOf(rec) = NoAddress
                      /\ \A rec \in TaskRecords(s, i) :
                            rec.status_api # <<"VIACEP", "Sucesso">>

\* ViaCEP answered with the 'erro' flag, the other two with an address, and
\* the three records are stored.
C19_Witness ==
    \E s \in Sessions :
        /\ pc[s] = "progress"
        /\ Len(tasks[s]) = 1
        /\ tasks[s][1].resp["VIACEP"] = "erro200"
        /\ tasks[s][1].resp["BRASILAPI"] = "ok200"
        /\ tasks[s][1].resp["AWESOMEAPI"] = "ok200"
        /\ Cardinality(TaskRecords(s, 1)) = 3

\* The sessions whose run has passed line 100 for job j and is under way, and
\* the sessions whose run has stored records of job j.
RunningIt(j) == {s \in Sessions : Executing(s, j) /\ pc[s] # "start"}

StoredBy(j) == {results[k].by : k \in {n \in 1..Len(results) : results[n].job_id = j}}

\* C20: no job is executed by two runs at once, and no job has records
\* stored by two runs.
C20_RunAtMostOnce ==
    \A j \in JobIds :
        /\ Cardinality(RunningIt(j)) <= 1
        /\ Cardinality(StoredBy(j)) <= 1

=============================================================================
